---- MODULE Spec2Model ----
(***************************************************************************)
(* Model of the TeenMe backend (src/app.js): the User and Message          *)
(* collections, the JWT auth middleware, and the register / login /        *)
(* profile / chat request handlers.  Every request is a process that       *)
(* runs synchronously up to its next `await` and is resumed by the store   *)
(* operation it awaits; requests interleave only at those points.          *)
(***************************************************************************)
EXTENDS Integers, Sequences, FiniteSets, Bags, TLC

(* ---------------------------- bounds ---------------------------------- *)
MaxReqs == 3            \* requests received in one behaviour
MaxTicks == 1           \* clock advances in one behaviour

(* ---------------------------- constants ------------------------------- *)
ExpiresIn == 3600       \* expiresIn: '1h', in seconds
Secret == "your-secret-key"

Undefined == "<undefined>"       \* a field absent from the JSON body

Emails == {"a@x.com", "b@x.com"}
Passwords == {"pw1", "pw2"}

VARIABLES
    users,      \* the User collection, in insertion order
    messages,   \* the Message collection, in insertion order
    reqs,       \* the requests in flight (a bag: two may be equal)
    last,       \* the request answered by the latest step, with its response
    issued,     \* the tokens sent to clients so far
    clock,      \* seconds since the server started
    ticks,      \* clock advances so far
    started     \* requests received so far

vars == <<users, messages, reqs, last, issued, clock, ticks, started>>

(* ---------------------------- schemas ---------------------------------- *)
\* Paths declared by the Message schema (the default of `timestamp` is not tracked).
MessagePaths == {"sessionId", "text", "sender", "timestamp"}

\* Paths declared by the User schema; both username and email carry unique: true.
UserUniquePaths == {"username", "email"}

\* new Model(doc): mongoose (strict schema) keeps only declared paths.
StrictDoc(doc, paths) == [f \in (DOMAIN doc) \cap paths |-> doc[f]]

\* Mutant: the create written as an upsert keyed by (sessionId, sender).
MessageCreateUpsert(log, doc) ==
    LET d == StrictDoc(doc, MessagePaths)
        same == {i \in 1..Len(log) : log[i].sessionId = d.sessionId /\ log[i].sender = d.sender}
    IN IF same = {}
       THEN Append(log, d)
       ELSE [i \in 1..Len(log) |-> IF i \in same THEN d ELSE log[i]]

\* Message.create(doc): one document inserted at the end of the collection.
MessageCreate(log, doc) == Append(log, StrictDoc(doc, MessagePaths))

\* Mutant: only username carries a unique index.
DuplicateKeyUsernameOnly(coll, doc) ==
    \E i \in 1..Len(coll) : coll[i].username = doc.username

\* The unique indexes of the User collection reject a document whose
\* username or email equals that of a stored document (E11000).
DuplicateKey(coll, doc) ==
    \E i \in 1..Len(coll) : \E p \in UserUniquePaths : coll[i][p] = doc[p]

\* newUser.save(): the stored document; _id is assigned by the store.
UserSave(coll, doc) == Append(coll, doc)

\* User.findOne({ $or: [{ username }, { email }] }): index of the first match, 0 if none.
FindByUsernameOrEmail(coll, username, email) ==
    LET hits == {i \in 1..Len(coll) : coll[i].username = username \/ coll[i].email = email}
    IN IF hits = {} THEN 0 ELSE CHOOSE i \in hits : \A j \in hits : i <= j

\* User.findOne({ email }): index of the first match, 0 if none.
FindByEmail(coll, email) ==
    LET hits == {i \in 1..Len(coll) : coll[i].email = email}
    IN IF hits = {} THEN 0 ELSE CHOOSE i \in hits : \A j \in hits : i <= j

\* User.findById(id): index of the document with that _id, 0 if none.
FindById(coll, id) ==
    LET hits == {i \in 1..Len(coll) : coll[i].id = id}
    IN IF hits = {} THEN 0 ELSE CHOOSE i \in hits : TRUE

(* ---------------------------- tokens ----------------------------------- *)
NoToken == [kind |-> "none", userId |-> 0, username |-> "", iat |-> 0, exp |-> 0, key |-> ""]
EmptyToken == [NoToken EXCEPT !.kind = "empty"]
MalformedToken == [NoToken EXCEPT !.kind = "malformed"]
NoUser == [userId |-> 0, username |-> "", iat |-> 0, exp |-> 0]

\* jwt.sign({ userId, username }, secret, { expiresIn: '1h' }) at time now.
JwtSign(userId, username, key, now) ==
    [kind |-> "jwt", userId |-> userId, username |-> username,
     iat |-> now, exp |-> now + ExpiresIn, key |-> key]

\* Mutant: the expiry is not checked (ignoreExpiration).
JwtVerifiesNoExpiry(token, key, now) ==
    /\ token.kind = "jwt"
    /\ token.key = key

\* jwt.verify(token, secret) at time now: throws unless the token decodes,
\* carries the signature of `key` and has not reached its exp.
JwtVerifies(token, key, now) ==
    /\ token.kind = "jwt"
    /\ token.key = key
    /\ now < token.exp

JwtPayload(token) ==
    [userId |-> token.userId, username |-> token.username, iat |-> token.iat, exp |-> token.exp]

\* A token signed by someone who does not hold the secret.
ForgedToken == JwtSign(1, "alice", "other-key", 0)

(* ---------------------------- requests --------------------------------- *)
\* The Authorization header: absent, or "Bearer " followed by a token.
NoHeader == [present |-> FALSE, token |-> NoToken]
Bearer(t) == [present |-> TRUE, token |-> t]

NewReq(kind) ==
    [kind |-> kind, pc |-> "start",
     username |-> Undefined, email |-> Undefined, password |-> Undefined,
     header |-> NoHeader, message |-> Undefined, sessionIdIn |-> Undefined,
     sessionId |-> Undefined, user |-> NoUser, handler |-> FALSE,
     status |-> 0, error |-> "", token |-> NoToken, response |-> "",
     respSessionId |-> Undefined, respUser |-> 0,
     reads |-> 0, writes |-> 0, appended |-> << >>,
     failedAt |-> 0, dupKey |-> FALSE, at |-> 0]

\* No request was answered by the latest step.
NoReply == NewReq("none")

\* res.status(code).json(...): the first reply is the one the client gets;
\* the handler's path ends there.
Reply(r, code, error) ==
    IF r.status # 0
    THEN [r EXCEPT !.pc = "done"]
    ELSE [r EXCEPT !.pc = "done", !.status = code, !.error = error]

\* Mutant: the catch block sends its body without .status(500).
CaughtNoStatus(r, n, error) == Reply([r EXCEPT !.failedAt = n], 200, error)

\* catch (error) { res.status(500).json(...) } after the n-th store operation threw.
Caught(r, n, error) == Reply([r EXCEPT !.failedAt = n], 500, error)

\* !x for a body field
Falsy(x) == x \in {Undefined, ""}

\* The Authorization headers a client can send: none, an empty or garbled
\* token, a token signed with another key, or a token the server issued.
Headers ==
    {NoHeader, Bearer(EmptyToken), Bearer(MalformedToken), Bearer(ForgedToken)}
        \cup {Bearer(t) : t \in issued}

\* req.header('Authorization')?.replace('Bearer ', '')
HeaderToken(h) == IF h.present THEN h.token ELSE NoToken

\* authenticate: the request after the middleware ran.
Authenticate(r, now) ==
    LET token == HeaderToken(r.header) IN
    IF token.kind \in {"none", "empty"}
    THEN Reply([r EXCEPT !.at = now], 401, "Access denied")
    ELSE IF JwtVerifies(token, Secret, now)
         THEN [r EXCEPT !.user = JwtPayload(token), !.handler = TRUE, !.at = now]
         ELSE Reply([r EXCEPT !.at = now], 400, "Invalid token")

\* A request has run up to its next await or to its response: it was `old`
\* (a bag of at most one request; empty for a request just received), it is r.
Resume(old, r) ==
    /\ IF r.pc = "done"
       THEN /\ reqs' = reqs (-) old
            /\ last' = r
       ELSE /\ reqs' = (reqs (-) old) (+) SetToBag({r})
            /\ last' = NoReply
    /\ issued' = IF r.token.kind = "jwt" THEN issued \cup {r.token} ELSE issued

Receive(r) ==
    /\ started < MaxReqs
    /\ started' = started + 1
    /\ Resume(EmptyBag, r)

(* ---------------------------- register --------------------------------- *)
\* Destructuring of req.body and the validation of the three fields.
RegisterStart(r) ==
    IF Falsy(r.username) \/ Falsy(r.email) \/ Falsy(r.password)
    THEN Reply([r EXCEPT !.handler = TRUE], 400, "All fields are required")
    ELSE [r EXCEPT !.handler = TRUE, !.pc = "findOne", !.reads = 1]

\* Mutant: the 409 is sent without `return`, so save is issued all the same.
RegisterFoundNoReturn(r, coll, existing) ==
    IF existing # 0
    THEN [Reply(r, 409, "Username already exists") EXCEPT !.pc = "save", !.writes = 1]
    ELSE [r EXCEPT !.pc = "save", !.writes = 1]

\* The continuation of findOne: 409 if a user was found, else save is issued.
RegisterFound(r, coll, existing) ==
    IF existing # 0
    THEN Reply(r, 409, IF coll[existing].username = r.username
                       THEN "Username already exists"
                       ELSE "Email already registered")
    ELSE [r EXCEPT !.pc = "save", !.writes = 1]

\* new User({ username, email, password })
NewUser(r, id) ==
    [id |-> id, username |-> r.username, email |-> r.email, password |-> r.password]

\* The continuation of save: the token is signed and 201 is sent.
RegisterCreated(r, newUser, now) ==
    Reply([r EXCEPT !.token = JwtSign(newUser.id, newUser.username, Secret, now),
                    !.respUser = newUser.id], 201, "")

StartRegister(username, email, password) ==
    /\ Receive(RegisterStart([NewReq("register") EXCEPT
                    !.username = username, !.email = email, !.password = password]))
    /\ UNCHANGED <<users, messages, clock, ticks>>

RegisterFindOne(r) ==
    /\ r.kind = "register" /\ r.pc = "findOne"
    /\ \E ok \in BOOLEAN :
         Resume(SetToBag({r}), IF ok
                   THEN RegisterFound(r, users,
                            FindByUsernameOrEmail(users, r.username, r.email))
                   ELSE Caught(r, 1, "Registration failed"))
    /\ UNCHANGED <<users, messages, clock, ticks, started>>

RegisterSave(r) ==
    /\ r.kind = "register" /\ r.pc = "save"
    /\ LET newUser == NewUser(r, Len(users) + 1)
       IN \E ok \in BOOLEAN :
            IF ~ok
            THEN /\ Resume(SetToBag({r}), Caught(r, 2, "Registration failed"))
                 /\ users' = users
            ELSE IF DuplicateKey(users, newUser)
            THEN /\ Resume(SetToBag({r}), Caught([r EXCEPT !.dupKey = TRUE], 0, "Registration failed"))
                 /\ users' = users
            ELSE /\ users' = UserSave(users, newUser)
                 /\ Resume(SetToBag({r}), RegisterCreated(r, newUser, clock))
    /\ UNCHANGED <<messages, clock, ticks, started>>

(* ---------------------------- login ------------------------------------ *)
LoginStart(r) == [r EXCEPT !.handler = TRUE, !.pc = "findOne", !.reads = 1]

\* Mutant: the password comparison is left out.
LoginFoundNoPassword(r, coll, found, now) ==
    IF found = 0
    THEN Reply(r, 401, "Invalid credentials")
    ELSE Reply([r EXCEPT !.token = JwtSign(coll[found].id, coll[found].username, Secret, now),
                         !.respUser = coll[found].id], 200, "")

\* The continuation of findOne({ email }): 401, or a token and 200.
LoginFound(r, coll, found, now) ==
    IF found = 0 \/ coll[found].password # r.password
    THEN Reply(r, 401, "Invalid credentials")
    ELSE Reply([r EXCEPT !.token = JwtSign(coll[found].id, coll[found].username, Secret, now),
                         !.respUser = coll[found].id], 200, "")

StartLogin(email, password) ==
    /\ Receive(LoginStart([NewReq("login") EXCEPT !.email = email, !.password = password]))
    /\ UNCHANGED <<users, messages, clock, ticks>>

LoginFindOne(r) ==
    /\ r.kind = "login" /\ r.pc = "findOne"
    /\ \E ok \in BOOLEAN :
         Resume(SetToBag({r}), IF ok
                   THEN LoginFound(r, users, FindByEmail(users, r.email), clock)
                   ELSE Caught(r, 1, "Login failed"))
    /\ UNCHANGED <<users, messages, clock, ticks, started>>

(* ---------------------------- profile ---------------------------------- *)
\* The handler of GET /api/auth/me up to its await.
MeStart(r) == IF r.handler THEN [r EXCEPT !.pc = "findById", !.reads = 1] ELSE r

\* res.json(user): the user without its password, or null.
MeFound(r, coll, found) ==
    Reply([r EXCEPT !.respUser = IF found = 0 THEN 0 ELSE coll[found].id], 200, "")

StartMe(header) ==
    /\ Receive(MeStart(Authenticate([NewReq("me") EXCEPT !.header = header], clock)))
    /\ UNCHANGED <<users, messages, clock, ticks>>

MeFindById(r) ==
    /\ r.kind = "me" /\ r.pc = "findById"
    /\ \E ok \in BOOLEAN :
         Resume(SetToBag({r}), IF ok
                   THEN MeFound(r, users, FindById(users, r.user.userId))
                   ELSE Caught(r, 1, "Server error"))
    /\ UNCHANGED <<users, messages, clock, ticks, started>>

(* ---------------------------- chat ------------------------------------- *)
\* uuidv4(): an identifier no client supplies and no earlier call returned.
Uuidv4(n) == "uuid-" \o ToString(n)

\* `I received: "${message}". This is a mock response.`
AiResponse(message) == "I received: \"" \o message \o "\". This is a mock response."

\* const { message, sessionId = uuidv4() } = req.body; userId = req.user.userId;
\* the first Message.create is issued.
ChatStart(r, n) ==
    IF r.handler
    THEN [r EXCEPT !.sessionId = IF r.sessionIdIn = Undefined THEN Uuidv4(n) ELSE r.sessionIdIn,
                   !.pc = "createUser", !.writes = 1]
    ELSE r

\* Mutant: the user turn takes the sessionId of the body, not the defaulted one.
UserMessageBodySession(r) ==
    [sessionId |-> r.sessionIdIn, text |-> r.message, sender |-> "user", userId |-> r.user.userId]

\* The document of the first Message.create.
UserMessage(r) ==
    [sessionId |-> r.sessionId, text |-> r.message, sender |-> "user", userId |-> r.user.userId]

\* Mutant: the bot turn takes the sessionId of the body, not the defaulted one.
BotMessageBodySession(r, aiResponse) ==
    [sessionId |-> r.sessionIdIn, text |-> aiResponse, sender |-> "bot", userId |-> r.user.userId]

\* The document of the second Message.create.
BotMessage(r, aiResponse) ==
    [sessionId |-> r.sessionId, text |-> aiResponse, sender |-> "bot", userId |-> r.user.userId]

\* The continuation of the first create: the second create is issued.
ChatUserSaved(r, at) ==
    [r EXCEPT !.appended = Append(@, at), !.pc = "createBot", !.writes = 2]

\* The continuation of the second create: res.json({ response, sessionId }).
ChatBotSaved(r, at, aiResponse) ==
    Reply([r EXCEPT !.appended = Append(@, at), !.response = aiResponse,
                    !.respSessionId = r.sessionId], 200, "")

StartChat(header, message, sessionId) ==
    /\ Receive(ChatStart(Authenticate([NewReq("chat") EXCEPT
                    !.header = header, !.message = message, !.sessionIdIn = sessionId], clock),
                          started + 1))
    /\ UNCHANGED <<users, messages, clock, ticks>>

ChatCreateUser(r) ==
    /\ r.kind = "chat" /\ r.pc = "createUser"
    /\ \E ok \in BOOLEAN :
         IF ok
         THEN /\ messages' = MessageCreate(messages, UserMessage(r))
              /\ Resume(SetToBag({r}), ChatUserSaved(r, Len(messages')))
         ELSE /\ messages' = messages
              /\ Resume(SetToBag({r}), Caught(r, 1, "Chat processing failed"))
    /\ UNCHANGED <<users, clock, ticks, started>>

ChatCreateBot(r) ==
    /\ r.kind = "chat" /\ r.pc = "createBot"
    /\ \E ok \in BOOLEAN :
         IF ok
         THEN /\ messages' = MessageCreate(messages, BotMessage(r, AiResponse(r.message)))
              /\ Resume(SetToBag({r}), ChatBotSaved(r, Len(messages'), AiResponse(r.message)))
         ELSE /\ messages' = messages
              /\ Resume(SetToBag({r}), Caught(r, 2, "Chat processing failed"))
    /\ UNCHANGED <<users, clock, ticks, started>>

(* ---------------------------- system ----------------------------------- *)
Init ==
    /\ users = << >>
    /\ messages = << >>
    /\ reqs = EmptyBag
    /\ last = NoReply
    /\ issued = {}
    /\ clock = 0
    /\ ticks = 0
    /\ started = 0

\* Time passes between two events of the server.
TickSteps == {ExpiresIn}

Tick(d) ==
    /\ ticks < MaxTicks
    /\ ticks' = ticks + 1
    /\ clock' = clock + d
    /\ last' = NoReply
    /\ UNCHANGED <<users, messages, reqs, issued, started>>

\* Bodies of POST /api/auth/register: among the complete ones, two share a
\* username, two share an email and two share nothing; the others lack a field.
RegisterBodies ==
    {[username |-> "alice", email |-> "a@x.com", password |-> "pw1"],
     [username |-> "alice", email |-> "b@x.com", password |-> "pw1"],
     [username |-> "bob", email |-> "a@x.com", password |-> "pw1"],
     [username |-> Undefined, email |-> "a@x.com", password |-> "pw1"],
     [username |-> "alice", email |-> Undefined, password |-> "pw1"],
     [username |-> "alice", email |-> "a@x.com", password |-> Undefined]}

\* Bodies of POST /api/chat: two texts in a session the client names, one
\* without a sessionId.
ChatBodies ==
    {[message |-> "hello", sessionId |-> "s1"],
     [message |-> "bye", sessionId |-> "s1"],
     [message |-> "hello", sessionId |-> Undefined]}

Next ==
    \/ \E b \in RegisterBodies : StartRegister(b.username, b.email, b.password)
    \/ \E r \in BagToSet(reqs) : RegisterFindOne(r)
    \/ \E r \in BagToSet(reqs) : RegisterSave(r)
    \/ \E e \in Emails, p \in Passwords : StartLogin(e, p)
    \/ \E r \in BagToSet(reqs) : LoginFindOne(r)
    \/ \E h \in Headers : StartMe(h)
    \/ \E r \in BagToSet(reqs) : MeFindById(r)
    \/ \E h \in Headers, b \in ChatBodies : StartChat(h, b.message, b.sessionId)
    \/ \E r \in BagToSet(reqs) : ChatCreateUser(r)
    \/ \E r \in BagToSet(reqs) : ChatCreateBot(r)
    \/ \E d \in TickSteps : Tick(d)

Spec == Init /\ [][Next]_vars

(* ======================= properties ==================================== *)
IsPrefix(s, t) == Len(s) <= Len(t) /\ SubSeq(t, 1, Len(s)) = s

Gated == {"me", "chat"}
Answered(r) == r.kind # "none" /\ r.status # 0
Visible == BagToSet(reqs) \cup {last}

(* C1: in every reachable state no two distinct User records share a
   username and no two share an email, whatever the interleaving of
   register requests. *)
C1_UsersUnique ==
    \A i, j \in 1..Len(users) :
        i # j => /\ users[i].username # users[j].username
                 /\ users[i].email # users[j].email
                 /\ users[i].id # users[j].id

\* A registration passed the existence check and was then refused by the
\* unique index, while the user that won the race is stored.
C1_Witness ==
    /\ last.kind = "register" /\ last.dupKey
    /\ \E i \in 1..Len(users) : users[i].username = last.username

(* C2: a register request with all three fields whose username or email
   duplicates an existing User is always answered 409, never 500 (the store
   itself working). *)
C2_DuplicateAnswered409 ==
    ( /\ last.kind = "register" /\ Answered(last)
      /\ ~Falsy(last.username) /\ ~Falsy(last.email) /\ ~Falsy(last.password)
      /\ last.failedAt = 0
      /\ last.status # 201
      /\ \E i \in 1..Len(users) :
            users[i].username = last.username \/ users[i].email = last.email )
    => last.status = 409

(* C3: on a protected route the gate gives 401 and no handler when no
   credential is sent, 400 and no handler when the credential is malformed,
   signed with another key or expired (from iat + 1 h on), and otherwise runs the
   handler with req.user carrying the userId and username the token was
   issued with. *)
C3_GateOutcome ==
    \A r \in Visible :
        r.kind \in Gated =>
            LET t == r.header.token
                absent == ~r.header.present \/ t.kind = "empty"
                invalid == t.kind # "jwt" \/ t.key # Secret \/ r.at >= t.iat + ExpiresIn
            IN IF absent
               THEN r.status = 401 /\ ~r.handler /\ r.user = NoUser
               ELSE IF invalid
               THEN r.status = 400 /\ ~r.handler /\ r.user = NoUser
               ELSE /\ r.handler
                    /\ r.status \notin {400, 401}
                    /\ r.user.userId = t.userId /\ r.user.username = t.username
                    /\ t \in issued
                    /\ \E i \in 1..Len(users) :
                          users[i].id = t.userId /\ users[i].username = t.username

\* An issued token is refused once it has expired.
C3_Witness ==
    /\ last.kind \in Gated /\ last.status = 400
    /\ last.header.token \in issued

(* C4: a chat call answered 200 appended exactly two Messages, first the
   user's text, then the returned response as "bot", both with the sessionId
   the response returns (the supplied one, else one no other call uses);
   the second create is issued only after the first is stored. *)
C4_ChatAppendsTwo ==
    /\ (last.kind = "chat" /\ last.status = 200) =>
          /\ Len(last.appended) = 2
          /\ LET i == last.appended[1]
                 j == last.appended[2]
             IN /\ 1 <= i /\ i < j /\ j <= Len(messages)
                /\ messages[i].sender = "user" /\ messages[i].text = last.message
                /\ messages[j].sender = "bot" /\ messages[j].text = last.response
                /\ messages[i].sessionId = last.respSessionId
                /\ messages[j].sessionId = last.respSessionId
                /\ IF last.sessionIdIn # Undefined
                   THEN last.respSessionId = last.sessionIdIn
                   ELSE /\ last.respSessionId # Undefined
                        /\ \A k \in 1..Len(messages) :
                              messages[k].sessionId = last.respSessionId => k \in {i, j}
    /\ \A r \in BagToSet(reqs) :
          (r.kind = "chat" /\ r.pc = "createBot") =>
              /\ Len(r.appended) = 1
              /\ messages[r.appended[1]].sender = "user"
              /\ messages[r.appended[1]].text = r.message
              /\ messages[r.appended[1]].sessionId = r.sessionId

\* A chat without sessionId was answered 200.
C4_Witness ==
    /\ last.kind = "chat" /\ last.status = 200
    /\ last.sessionIdIn = Undefined
    /\ Len(messages) >= 2

(* C5 as claimed: once no chat call is in flight, every "user" Message is
   immediately followed in storage order by a "bot" Message with the same
   sessionId. *)
C5_UserImmediatelyFollowedByBot ==
    (\A r \in BagToSet(reqs) : r.kind # "chat") =>
        \A i \in 1..Len(messages) :
            messages[i].sender = "user" =>
                /\ i < Len(messages)
                /\ messages[i + 1].sender = "bot"
                /\ messages[i + 1].sessionId = messages[i].sessionId

(* C5 amended: every "bot" Message comes after a "user" Message with the
   same sessionId whose text it answers, and a user Message has at most one
   such bot Message; the bot Message need not follow immediately and is
   missing while the call's second append is pending or after it failed. *)
C5_BotAfterItsUser ==
    \A k \in 1..Len(messages) :
        messages[k].sender = "bot" =>
            LET bots == {j \in 1..k : /\ messages[j].sender = "bot"
                                       /\ messages[j].sessionId = messages[k].sessionId
                                       /\ messages[j].text = messages[k].text}
                mine == {i \in 1..k : /\ messages[i].sender = "user"
                                       /\ messages[i].sessionId = messages[k].sessionId
                                       /\ messages[k].text =
                                            "I received: \"" \o messages[i].text
                                                \o "\". This is a mock response."}
            IN Cardinality(bots) <= Cardinality(mine)

\* Two chat calls interleaved: user, user, bot, bot.
C5_Witness ==
    /\ Len(messages) = 4
    /\ messages[1].sender = "user" /\ messages[2].sender = "user"
    /\ messages[3].sender = "bot" /\ messages[4].sender = "bot"

(* C6: every Message stored by a chat call carries a userId equal to the
   userId of the verified token of the caller. *)
C6_MessagesCarryUserId ==
    (last.kind = "chat" /\ last.status = 200) =>
        \A n \in 1..Len(last.appended) :
            /\ "userId" \in DOMAIN messages[last.appended[n]]
            /\ messages[last.appended[n]].userId = last.user.userId

(* C7: a chat call during which a store operation fails is answered 500,
   never 200, and nothing is rolled back: after a failed first create the
   call left no Message and never issued the second create; after a failed
   second create its user Message is in the log without a bot Message. *)
C7_ChatFailure ==
    (last.kind = "chat" /\ last.failedAt # 0) =>
        /\ last.status = 500
        /\ last.failedAt = 1 =>
              /\ last.appended = << >>
              /\ last.writes = 1
              /\ last.sessionIdIn = Undefined =>
                    \A k \in 1..Len(messages) : messages[k].sessionId # last.sessionId
        /\ last.failedAt = 2 =>
              /\ Len(last.appended) = 1
              /\ last.appended[1] \in 1..Len(messages)
              /\ messages[last.appended[1]].sender = "user"
              /\ messages[last.appended[1]].text = last.message
              /\ messages[last.appended[1]].sessionId = last.sessionId
              /\ last.sessionIdIn = Undefined =>
                    \A k \in 1..Len(messages) :
                        messages[k].sessionId = last.sessionId => k = last.appended[1]

\* The second create of a chat call failed.
C7_Witness ==
    /\ last.kind = "chat" /\ last.failedAt = 2 /\ last.status = 500
    /\ Len(messages) >= 1

(* C8: with a working store, login answers 200 with a token exactly when a
   User with the given email has the given password, the token then carrying
   that User's id and username; otherwise it answers 401 without a token. *)
C8_Login ==
    (last.kind = "login" /\ Answered(last) /\ last.failedAt = 0) =>
        LET match == {i \in 1..Len(users) :
                        users[i].email = last.email /\ users[i].password = last.password}
        IN IF match # {}
           THEN /\ last.status = 200
                /\ last.token.kind = "jwt" /\ last.token.key = Secret
                /\ \E i \in match : /\ last.token.userId = users[i].id
                                    /\ last.token.username = users[i].username
           ELSE last.status = 401 /\ last.token = NoToken

\* A registered user logged in with the registered email and password.
C8_Witness ==
    /\ last.kind = "login" /\ last.status = 200
    /\ \E i \in 1..Len(users) :
          users[i].email = last.email /\ last.token.username = users[i].username

(* C9: the Message Log is append-only: every step leaves the Messages
   stored so far in place and unchanged, so a later log extends an earlier
   one (two chats in one session leave four Messages of that session). *)
C9_AppendOnly == [][IsPrefix(messages, messages')]_vars

\* Two chat calls with the same explicit sessionId and different messages
\* succeeded: four Messages carry that sessionId.
C9_Witness ==
    /\ Cardinality({k \in 1..Len(messages) : messages[k].sessionId = "s1"}) = 4
    /\ \E i, j \in 1..Len(messages) :
          /\ messages[i].sender = "user" /\ messages[j].sender = "user"
          /\ messages[i].text # messages[j].text
    /\ \A r \in BagToSet(reqs) : r.kind # "chat"

(* C10: a step that answers a request with a 4xx status leaves the User
   records and the Message Log as they were, and that request has issued no
   write at all; a request refused by the gate has issued no read either. *)
C10_RejectedLeavesStores ==
    [][ (last'.kind # "none" /\ last'.status \in 400..499) =>
            /\ users' = users
            /\ messages' = messages
            /\ last'.writes = 0
            /\ last'.appended = << >>
            /\ last'.kind \in Gated => (last'.reads = 0 /\ ~last'.handler)
            /\ last'.status = 400 => last'.reads = 0 ]_vars

\* A registration was refused with 409 while a user is stored.
C10_Witness ==
    /\ last.kind = "register" /\ last.status = 409
    /\ Len(users) = 1 /\ Len(messages) = 0
====
